---------------------------- MODULE Spec2Model ----------------------------
(***************************************************************************)
(* Model of vtkplotter's Plotter class (src/vtkplotter/plotter.py).        *)
(*                                                                         *)
(* The Plotter instance is the record vp; its fields carry the names of    *)
(* the attributes of the Python object.  Every public method is a pure     *)
(* operator from the plotter before the call to an "effect" record (the    *)
(* plotter after the call, how the call ended and what it did to the       *)
(* render engine), so that a method that calls another method (addActor,   *)
(* removeActor, render and clear all call show) is modelled by composing   *)
(* the operators, as the code does.  One action per public method applies  *)
(* the operator to vp and records the call in last.                        *)
(*                                                                         *)
(* The render engine (vtk) is modelled by what the plotter asks of it:     *)
(* the props attached to each renderer, the legend box and the grid-wall   *)
(* axes of each renderer, the interactor's initialisation, observers and   *)
(* timer, the calls to Render and the calls to Start (the blocking         *)
(* interaction loop).                                                      *)
(***************************************************************************)
EXTENDS Integers, Sequences, FiniteSets, TLC

(***************************************************************************)
(* Bounds of the model.                                                    *)
(***************************************************************************)
\* number of distinct actor handles the client can create
NHandles == 3
\* number of calls made on the plotter in a run of Spec
MaxCalls == 3
\* number of calls made on the plotter in a run of SpecShow
MaxShowCalls == 2
\* number of optional arguments (besides at and interactive) given to a show
\* call of SpecShow
MaxOptions == 2
\* largest number N of desired renderers given to the grid selection (SpecGrid)
MaxN == 1000
\* largest number of rows and of columns of a plotter that is built (SpecBuild)
MaxGrid == 3
\* largest number N of desired renderers of a plotter that is built (SpecBuild)
MaxBuildN == 6
\* largest number of renderers of the plotter of the state machine
MaxRenderers == 2
\* number of calls made on the plotter in a run of SpecCamera
MaxCamCalls == 3

(***************************************************************************)
(* Values.                                                                 *)
(***************************************************************************)
\* Python's None, where it appears as an entry of a list of actors
None == 0
\* self.renderer = None: no current renderer
NoRenderer == -1
\* a file-path string that matches no file, as an item of show's actors argument
MissingFile == -2
\* show's and render's at=None
AtNone == -1
\* show's and render's axes=None
AxesNone == -1
\* no vtkLegendBoxActor in a renderer
NoBox == -1

Handles == 1..NHandles

(***************************************************************************)
(* Attributes of the actor behind a handle.  They are fixed per handle:    *)
(* the client chooses them when it creates the actor (legend=...) or       *)
(* right after (PickableOff()).                                            *)
(***************************************************************************)
\* a.legend: the legend text, a string written as the sequence of its characters
legendText(a) ==
    IF a % 3 = 1 THEN <<"a", "b">> ELSE IF a % 3 = 2 THEN <<"b">> ELSE <<"a">>

\* a.GetPickable()
GetPickable(a) == a % 3 # 0

\* a.GetBounds() spans a box with non-zero extent in x, y and z
hasVolume(a) == a % 2 = 0

\* Python's `sub in s` for strings
StrContains(sub, s) ==
    \E i \in 0..(Len(s) - Len(sub)) : SubSeq(s, i + 1, i + Len(sub)) = sub

\* Python's `a in lst`
InList(a, lst) == \E i \in 1..Len(lst) : lst[i] = a

\* Python's lst.index(a), 0 when a ValueError is raised
ListIndex(a, lst) ==
    IF InList(a, lst) THEN CHOOSE i \in 1..Len(lst) :
                               lst[i] = a /\ \A j \in 1..(i - 1) : lst[j] # a
    ELSE 0

\* Python's del lst[i] (i counted from 1 here)
DelAt(lst, i) == SubSeq(lst, 1, i - 1) \o SubSeq(lst, i + 1, Len(lst))

\* lst without its first entry equal to a (lst itself when there is none)
DelFirst(a, lst) == IF InList(a, lst) THEN DelAt(lst, ListIndex(a, lst)) ELSE lst

\* lst[:-1], the list after lst.pop()
Popped(lst) == SubSeq(lst, 1, Len(lst) - 1)

(***************************************************************************)
(* The camera.  A vtkCamera is modelled by the fields moveCamera reads and *)
(* writes.  The cameras of the model lie on one axis and look along it:    *)
(* position and focalPoint are coordinates on that axis, direction is the  *)
(* direction of projection (1 or -1).  viewUp is a vector across the axis; *)
(* its components are numerators over FracDen, as fractions are.           *)
(*   upScaled: the engine rescaled the vector it was given to unit length  *)
(*   framed:   renderer.ResetCamera() placed the camera to frame the scene *)
(*             (position, focal point and distance are the scene's)        *)
(*   fitted:   renderer.ResetCameraClippingRange() set the clipping range  *)
(*             to the depth of the scene                                   *)
(***************************************************************************)
\* the denominator of the fractions given to moveCamera
FracDen == 2

\* self.camThickness
camThickness == 2000

Abs(x) == IF x < 0 THEN -x ELSE x

Camera(position, focalPoint, viewUp, clippingRange) ==
    [position |-> position, focalPoint |-> focalPoint,
     direction |-> IF focalPoint < position THEN -1 ELSE 1,
     distance |-> Abs(focalPoint - position),
     viewUp |-> viewUp, upScaled |-> FALSE,
     clippingRange |-> clippingRange, framed |-> FALSE, fitted |-> FALSE]

\* vtk.vtkCamera(): at 1 on the axis looking at the origin, clipping range
\* (0.01, 1000.01) to the unit
NewCamera == Camera(1, 0, <<0, FracDen>>, <<0, 1000>>)

\* the engine recomputes distance and direction of projection after
\* SetPosition and SetFocalPoint
ComputeDistance(c) ==
    IF c.focalPoint = c.position THEN [c EXCEPT !.distance = 0]
    ELSE [c EXCEPT !.distance = Abs(c.focalPoint - c.position),
                   !.direction = IF c.focalPoint < c.position THEN -1 ELSE 1]

SetPosition(c, x) == ComputeDistance([c EXCEPT !.position = x])

SetFocalPoint(c, x) == ComputeDistance([c EXCEPT !.focalPoint = x])

\* the engine keeps the view-up vector at unit length
SetViewUp(c, v) ==
    [c EXCEPT !.viewUp = v,
              !.upScaled = (v[1] * v[1] + v[2] * v[2] # FracDen * FracDen)]

\* the engine moves the focal point to the given distance from the position,
\* along the direction of projection
SetDistance(c, d) ==
    LET dd == IF d < 0 THEN 0 ELSE d
    IN  [c EXCEPT !.distance = dd, !.focalPoint = c.position + c.direction * dd]

\* the engine orders the two planes and keeps the near one in front of the camera
SetClippingRange(c, rng) ==
    LET lo == IF rng[1] > rng[2] THEN rng[2] ELSE rng[1]
        hi == IF rng[1] > rng[2] THEN rng[1] ELSE rng[2]
    IN  [c EXCEPT !.clippingRange = IF lo < 0 THEN <<0, hi - lo>> ELSE <<lo, hi>>]

\* the far plane is put at the given thickness behind the near plane
SetThickness(c, t) == [c EXCEPT !.clippingRange = <<@[1], @[1] + t>>]

\* x2*fraction + x1*(1-fraction) for the fraction k/FracDen
Lerp(x1, x2, k) == (x2 * k + x1 * (FracDen - k)) \div FracDen

(***************************************************************************)
(* Plotter.__init__: the grid of renderers.                                *)
(***************************************************************************)
\* int(numpy.sqrt(n)) for an integer n >= 0
ISqrt(n) == CHOOSE r \in 0..n : r * r <= n /\ n < (r + 1) * (r + 1)

\* the candidate shapes lm around (nx, ny)
Candidates(N, x, y) ==
    LET nx == ISqrt(((N * y) \div x) + 1)
        ny == ISqrt(((N * x) \div y) + 1)
    IN  << <<nx, ny>>, <<nx, ny + 1>>, <<nx - 1, ny>>, <<nx + 1, ny>>, <<nx, ny - 1>>,
           <<nx - 1, ny + 1>>, <<nx + 1, ny - 1>>, <<nx + 1, ny + 1>>, <<nx - 1, ny - 1>> >>

\* the starting value of minl
MinlStart == 1000

\* the loop `for i, m in enumerate(lm)`: the state <<ind, minl>> after the
\* candidates lm[1..k]
RECURSIVE GridLoop(_, _, _)
GridLoop(lm, N, k) ==
    IF k = 0 THEN <<1, MinlStart>>
    ELSE LET prev == GridLoop(lm, N, k - 1)
             l == lm[k][1] * lm[k][2]
         IN  IF N <= l /\ l < prev[2] THEN <<k, l>> ELSE prev

\* no N given
NoN == 0

\* the shape the constructor builds: lm[ind] when N is given (N is truthy),
\* the shape argument otherwise
ChosenShape(shape, N, x, y) ==
    IF N # NoN
    THEN LET lm == Candidates(N, x, y) IN lm[GridLoop(lm, N, Len(lm))[1]]
    ELSE shape

\* the viewport (xmin, ymin, xmax, ymax) given to SetViewport for loop indices
\* i, j: x in units of 1/shape[1], y in units of 1/shape[0], origin bottom left
Viewport(i, j) == [xmin |-> j, ymin |-> i, xmax |-> j + 1, ymax |-> i + 1]

\* the rows taken bottom-up: `for i in range(rows)`
RowOfPassForward(rows, n) == n

\* the value of i in the n-th pass (n from 0) of `for i in reversed(range(rows))`
RowOfPass(rows, n) == rows - 1 - n

\* self.renderers after the two nested loops: the viewports in append order
Renderers(shape) ==
    [k \in 1..(shape[1] * shape[2]) |->
        Viewport(RowOfPass(shape[1], (k - 1) \div shape[2]), (k - 1) % shape[2])]

\* the Plotter after construction
\* interactive: "None", "True" or "False"
PlotterInit(shape, N, x, y, axes, interactive, offscreen) ==
    LET sh == ChosenShape(shape, N, x, y)
        rs == Renderers(sh)
        inter == IF interactive = "None"
                 THEN ~(N # NoN \/ shape # <<1, 1>>)
                 ELSE interactive = "True"
    IN  [ actors |-> <<>>,
          renderer |-> NoRenderer,
          renderers |-> rs,
          shape |-> sh,
          interactive |-> IF offscreen THEN FALSE ELSE inter,
          offscreen |-> offscreen,
          axes |-> axes,
          legend |-> <<>>,
          axes_exist |-> [r \in 0..(Len(rs) - 1) |-> FALSE],
          initializedPlotter |-> FALSE,
          initializedIren |-> FALSE,
          camera |-> NewCamera,
          \* the render engine, as far as the plotter drives it
          props |-> [r \in 0..(Len(rs) - 1) |-> {}],        \* actors attached to each renderer
          walls |-> [r \in 0..(Len(rs) - 1) |-> FALSE],     \* grid-wall assembly attached
          legendBox |-> [r \in 0..(Len(rs) - 1) |-> NoBox], \* entries of the legend box
          nInitialize |-> 0,                          \* interactor.Initialize() calls
          nObservers |-> 0,                           \* registrations of the 4 callbacks
          nTimers |-> 0 ]                             \* TimerEvent observers + timers

(***************************************************************************)
(* Effects of a call: the plotter after it, how it ended ("returned",      *)
(* "raised": a Python exception left the method, "exit": sys.exit ended    *)
(* the process), the messages it printed, whether it rendered the window,  *)
(* how many times it started the interaction loop, and whether a start     *)
(* came while the interactor was not initialised.                          *)
(***************************************************************************)
Eff(p, result, msgs, rendered, started, startedUninit) ==
    [p |-> p, result |-> result, msgs |-> msgs, rendered |-> rendered,
     started |-> started, startedUninit |-> startedUninit]

\* a call that returned having done nothing to the render engine
Quiet(p) == Eff(p, "returned", {}, FALSE, 0, FALSE)

(***************************************************************************)
(* Plotter.getActors                                                       *)
(***************************************************************************)
\* getActors(obj) for obj None or a valid renderer number: the set of the
\* pickable actors of the renderer (the order of the list is the engine's)
getActorsOfRenderer(p, r) == {a \in p.props[r] : GetPickable(a)}

\* the branch `elif isinstance(obj, str)`: search the actor by the legend name
legendMatches(p, s) ==
    SelectSeq(p.actors,
              LAMBDA a : a # None /\ StrContains(s, legendText(a)) /\ GetPickable(a))

\* getActors(s) for a string s
getActorsByLegend(p, s) ==
    IF p.renderer = NoRenderer THEN <<>> ELSE legendMatches(p, s)

\* getActors() with no argument, as a set
getActorsCurrent(p) ==
    IF p.renderer = NoRenderer THEN {} ELSE getActorsOfRenderer(p, p.renderer)

(***************************************************************************)
(* Plotter.show                                                            *)
(***************************************************************************)
\* scan(wannabeacts) of show: items are actor handles, None or MissingFile.
\* acc is scannedacts so far, actors is self.actors (load and pop change it).
RECURSIVE scan(_, _, _)
scan(items, acc, actors) ==
    IF items = <<>> THEN [raised |-> FALSE, scannedacts |-> acc, actors |-> actors]
    ELSE LET a == Head(items) IN
         IF a \in Handles THEN scan(Tail(items), Append(acc, a), actors)
         ELSE IF a = MissingFile
              THEN \* load() finds nothing, prints and returns None; then self.actors.pop()
                   IF actors = <<>>
                   THEN [raised |-> TRUE, scannedacts |-> acc, actors |-> actors]
                   ELSE scan(Tail(items), Append(acc, None), Popped(actors))
              ELSE \* a is None: pass
                   scan(Tail(items), acc, actors)

\* for a in actors2show: if a not in self.actors: self.actors.append(a)
RECURSIVE appendNew(_, _)
appendNew(actors, actors2show) ==
    IF actors2show = <<>> THEN actors
    ELSE appendNew(IF InList(Head(actors2show), actors) THEN actors
                   ELSE Append(actors, Head(actors2show)),
                   Tail(actors2show))

\* the set of the entries of a list
Entries(lst) == {lst[i] : i \in 1..Len(lst)}

\* drawAxes() as show calls it (axtype None), for the axes types 0, 1 and
\* the others (which draw no grid walls).  raised: GetBounds on a None entry.
drawAxes(p) ==
    IF p.axes = 0 THEN [p |-> p, raised |-> FALSE]
    ELSE IF p.axes_exist[p.renderer] THEN [p |-> p, raised |-> FALSE]
    ELSE LET p1 == [p EXCEPT !.axes_exist[p.renderer] = TRUE] IN
         IF p.axes # 1 THEN [p |-> p1, raised |-> FALSE]
         ELSE IF InList(None, p.actors) THEN [p |-> p1, raised |-> TRUE]
         ELSE IF p.actors = <<>> THEN [p |-> p1, raised |-> FALSE]
         ELSE IF ~(\E a \in Entries(p.actors) : hasVolume(a))
              THEN [p |-> p1, raised |-> FALSE]     \* step is 0
              ELSE [p |-> [p1 EXCEPT !.walls[p.renderer] = TRUE], raised |-> FALSE]

\* _draw_legend(): self.legend is always a list, so the old box is replaced
\* by a new one with an entry per pickable actor of the renderer (every
\* actor of the model has a legend text), 25 at most
MaxLegendEntries == 25

_draw_legend(p) ==
    LET n == Cardinality(getActorsCurrent(p))
    IN  [p EXCEPT !.legendBox[p.renderer] =
                      IF n > MaxLegendEntries THEN MaxLegendEntries ELSE n]

\* the block entered on every show that has an interactor
initIrenEveryShow(p, execute) ==
    IF ~p.offscreen
    THEN [p EXCEPT !.initializedIren = TRUE,
                   !.nInitialize = @ + 1,
                   !.nObservers = @ + 1,
                   !.nTimers = IF execute THEN @ + 1 ELSE @]
    ELSE p

\* the block `if not self.initializedIren and self.interactor:`
initIren(p, execute) ==
    IF ~p.initializedIren /\ ~p.offscreen
    THEN [p EXCEPT !.initializedIren = TRUE,
                   !.nInitialize = @ + 1,
                   !.nObservers = @ + 1,
                   !.nTimers = IF execute THEN @ + 1 ELSE @]
    ELSE p

\* does the renderer hold a prop with bounds (an actor or the grid walls; the
\* legend box is two-dimensional and has none)
hasVisibleProps(p) == p.props[p.renderer] # {} \/ p.walls[p.renderer]

\* self.renderer.ResetCamera(): the engine frames the visible props, and
\* leaves the camera alone when there are none
ResetCamera(p) ==
    IF hasVisibleProps(p)
    THEN [p EXCEPT !.camera.framed = TRUE, !.camera.fitted = TRUE]
    ELSE p

\* self.renderer.ResetCameraClippingRange()
ResetCameraClippingRange(p) ==
    IF hasVisibleProps(p) THEN [p EXCEPT !.camera.fitted = TRUE] ELSE p

\* the loop entered whenever there is an interactor
startsLoopAlways(p) == ~p.offscreen

\* is the interaction loop entered: `if self.interactor and self.interactive`
startsLoop(p) == ~p.offscreen /\ p.interactive

\* `if at < len(self.renderers)`
validAt(p, at) == at < Len(p.renderers)

\* the wrong index reported, and the first renderer rendered instead
wrongIndexFallsBack(p, msgs) ==
    Eff([p EXCEPT !.renderer = 0, !.initializedPlotter = TRUE], "returned",
        msgs \cup {"wrong renderer index"}, TRUE, 0, FALSE)

\* the else branch: print "wrong renderer index" and return
wrongIndex(p, msgs) ==
    Eff(p, "returned", msgs \cup {"wrong renderer index"}, FALSE, 0, FALSE)

\* show(actors, at, legend, axes, interactive, execute, q), args a record:
\*   actors: a list of items (<<>> for None), at: AtNone or a number,
\*   legend: "None", "False", "list", "str" or "bad" (truthy, no sequence, no string),
\*   axes: AxesNone or an axes type, interactive: "None", "True", "False",
\*   resetcam: BOOLEAN, execute: is a function given, q: BOOLEAN
show(p, args) ==
    LET p0 == [p EXCEPT !.interactive = IF p.offscreen THEN FALSE ELSE @]
        interactive == IF p.offscreen THEN "False" ELSE args.interactive
        sc == IF args.actors # <<>> THEN scan(args.actors, <<>>, p0.actors)
              ELSE scan(p0.actors, <<>>, p0.actors)
        actors2show == sc.scannedacts
        p1 == [p0 EXCEPT !.actors = IF args.actors # <<>>
                                    THEN appendNew(sc.actors, actors2show)
                                    ELSE actors2show]
        loadMsgs == IF InList(MissingFile, args.actors) THEN {"cannot find"} ELSE {}
        p2 == [p1 EXCEPT !.legend = IF args.legend \in {"list", "str"}
                                    THEN <<"text">> ELSE @,
                         !.axes = IF args.axes # AxesNone THEN args.axes ELSE @,
                         !.interactive = IF interactive # "None"
                                         THEN interactive = "True" ELSE @]
        at == IF args.at = AtNone THEN 0 ELSE args.at
        p3 == [p2 EXCEPT !.renderer = at,
                         !.camera = SetThickness(@, camThickness)]
        shown == Entries(actors2show) \ {None}
        p4 == [p3 EXCEPT !.props[at] =
                   (@ \cup shown) \ {a \in @ \cup shown : GetPickable(a) /\ a \notin shown}]
        ax == drawAxes(p4)
        lg == _draw_legend(ax.p)
        p5 == IF args.resetcam THEN ResetCamera(lg) ELSE lg
        p6 == ResetCameraClippingRange(
                  [initIren(p5, args.execute) EXCEPT !.initializedPlotter = TRUE])
        warn == IF InList(None, actors2show) THEN {"invalid actor"} ELSE {}
        start == startsLoop(p6)
    IN  IF sc.raised
        THEN Eff([p0 EXCEPT !.actors = sc.actors], "raised", loadMsgs, FALSE, 0, FALSE)
        ELSE IF args.legend = "bad"
        THEN Eff(p1, "exit", loadMsgs \cup {"legend must be list or string"}, FALSE, 0, FALSE)
        ELSE IF args.at = AtNone /\ Len(p.renderers) > 1 /\ ~p.offscreen
        THEN \* several renderers and no at: render the whole thing and return
             Eff(p2, "returned", loadMsgs, TRUE,
                 IF startsLoop(p2) THEN 1 ELSE 0,
                 startsLoop(p2) /\ ~p2.initializedIren)
        ELSE IF ~validAt(p2, at)
        THEN wrongIndex(p2, loadMsgs)
        ELSE IF ax.raised
        THEN Eff(ax.p, "raised", loadMsgs \cup warn, FALSE, 0, FALSE)
        ELSE Eff(p6, IF args.q THEN "exit" ELSE "returned", loadMsgs \cup warn, TRUE,
                 IF start THEN 1 ELSE 0, FALSE)

\* the default arguments of show
showDefaults ==
    [actors |-> <<>>, at |-> AtNone, legend |-> "None", axes |-> AxesNone,
     resetcam |-> TRUE, interactive |-> "None", execute |-> FALSE, q |-> FALSE]

\* two calls one after the other: the second starts from the plotter the first left
AndThen(e1, e2) ==
    [p |-> e2.p, result |-> e2.result, msgs |-> e1.msgs \cup e2.msgs,
     rendered |-> e1.rendered \/ e2.rendered, started |-> e1.started + e2.started,
     startedUninit |-> e1.startedUninit \/ e2.startedUninit]

(***************************************************************************)
(* The shape-construction methods.  a is the new actor that the function   *)
(* of vtkplotter.shapes returns.                                           *)
(***************************************************************************)
\* a = shapes.<shape>(...); self.actors.append(a); return a
\* (point, points, sphere, spheres, line, ..., text)
appendActor(p, a) == [p EXCEPT !.actors = Append(@, a)]

sphere(p, a) == appendActor(p, a)

box(p, a) == appendActor(p, a)

cone(p, a) == appendActor(p, a)

\* a = self.box(...); self.actors.append(a); return a
cube(p, a) == appendActor(box(p, a), a)

\* a = self.cone(...); self.actors.append(a); return a
pyramid(p, a) == appendActor(cone(p, a), a)

(***************************************************************************)
(* addActor, removeActor, clear, render                                    *)
(***************************************************************************)
addActor(p, a) ==
    IF ~p.initializedPlotter
    THEN LET e == show(p, [showDefaults EXCEPT !.interactive = "False"])
         IN  IF e.result = "returned"
             THEN [e EXCEPT !.p.interactive = p.interactive]
             ELSE e
    ELSE Quiet([p EXCEPT !.actors = Append(@, a),
                         !.props[p.renderer] = @ \cup {a}])

\* removeActor(x): x is an actor ([kind |-> "actor", v |-> handle]) or an index
\* into self.actors ([kind |-> "index", v |-> i]).  The bare except swallows
\* every exception, SystemExit included.
removeActor(p, x) ==
    IF ~p.initializedPlotter
    THEN [show(p, showDefaults) EXCEPT !.result = "returned"]
    ELSE IF x.kind = "index"
    THEN Quiet(p)   \* RemoveActor(int) raises TypeError (and index() ValueError)
    ELSE LET p1 == [p EXCEPT !.props[p.renderer] = @ \ {x.v}]
         IN  Quiet([p1 EXCEPT !.actors = DelFirst(x.v, @)])

\* for i, a in enumerate(actors): self.removeActor(a)
RECURSIVE clearEach(_, _)
clearEach(e, L) ==
    IF L = <<>> THEN e
    ELSE clearEach(AndThen(e, removeActor(e.p, Head(L))), Tail(L))

\* clear with the reset of the list left out when there is no current renderer
clearNoRenderer(p, L) ==
    IF Len(L) > 0 THEN clearEach(Quiet(p), L)
    ELSE IF p.renderer = NoRenderer THEN Quiet(p)
    ELSE Quiet([p EXCEPT !.props[p.renderer] = @ \ getActorsCurrent(p),
                         !.actors = <<>>])

clear(p, L) ==
    IF Len(L) > 0 THEN clearEach(Quiet(p), L)
    ELSE IF p.renderer = NoRenderer THEN Quiet([p EXCEPT !.actors = <<>>])
    ELSE Quiet([p EXCEPT !.props[p.renderer] = @ \ getActorsCurrent(p),
                         !.actors = <<>>])

\* render(addActor, at, axes): addActor is None or one actor
render(p, args) ==
    LET p0 == [p EXCEPT !.interactive = IF p.offscreen THEN FALSE ELSE @]
        e1 == IF args.addActor # None THEN addActor(p0, args.addActor) ELSE Quiet(p0)
        e2 == show(e1.p, [showDefaults EXCEPT !.interactive = "False",
                                               !.at = args.at, !.axes = args.axes])
    IN  IF e1.result # "returned" THEN e1
        ELSE IF ~e1.p.initializedPlotter
        THEN AndThen(e1, IF e2.result = "returned"
                         THEN [e2 EXCEPT !.p.interactive = e1.p.interactive]
                         ELSE e2)
        ELSE AndThen(e1, Eff(e1.p, "returned", {}, TRUE, 0, FALSE))

(***************************************************************************)
(* Plotter.moveCamera                                                      *)
(***************************************************************************)
\* moveCamera(camstart, camstop, fraction) for the fraction k/FracDen
moveCamera(p, camstart, camstop, k) ==
    LET cam0 == camstart     \* cam.DeepCopy(camstart)
        cam1 == SetPosition(cam0, Lerp(camstart.position, camstop.position, k))
        cam2 == SetFocalPoint(cam1, Lerp(camstart.focalPoint, camstop.focalPoint, k))
        cam3 == SetViewUp(cam2, <<Lerp(camstart.viewUp[1], camstop.viewUp[1], k),
                                  Lerp(camstart.viewUp[2], camstop.viewUp[2], k)>>)
        cam4 == SetDistance(cam3, Lerp(camstart.distance, camstop.distance, k))
        cam5 == SetClippingRange(cam4,
                    <<Lerp(camstart.clippingRange[1], camstop.clippingRange[1], k),
                      Lerp(camstart.clippingRange[2], camstop.clippingRange[2], k)>>)
        warn == IF k > FracDen THEN {"fraction is > 1"} ELSE {}
        e == show([p EXCEPT !.camera = cam5], [showDefaults EXCEPT !.resetcam = FALSE])
    IN  [e EXCEPT !.msgs = @ \cup warn]

(***************************************************************************)
(* The state machine: one Plotter, the calls a client makes on it one      *)
(* after the other (the program is single-threaded), and the last call.    *)
(***************************************************************************)
VARIABLES
    vp,      \* the Plotter instance
    alive,   \* FALSE once sys.exit has ended the process
    ncalls,  \* number of calls made so far
    last     \* the last call: method, arguments, what it returned and did

vars == <<vp, alive, ncalls, last>>

\* what a call record keeps of the plotter the call was made on
Before(p) ==
    [actors |-> p.actors, renderer |-> p.renderer,
     initializedPlotter |-> p.initializedPlotter, interactive |-> p.interactive,
     props |-> p.props, nTimers |-> p.nTimers]

\* the record of a call made on the plotter p
Call(p, op, args, ret, e) ==
    [op |-> op, args |-> args, ret |-> ret, before |-> Before(p),
     result |-> e.result, msgs |-> e.msgs, rendered |-> e.rendered,
     started |-> e.started, startedUninit |-> e.startedUninit]

\* no call yet
NoCall ==
    [op |-> "init", args |-> <<>>, ret |-> None, before |-> <<>>,
     result |-> "returned", msgs |-> {}, rendered |-> FALSE,
     started |-> 0, startedUninit |-> FALSE]

\* the shapes the plotter of the state machine is built with
Shapes == {<<1, cols>> : cols \in 1..MaxRenderers}

Init ==
    /\ \E sh \in Shapes, interactive \in {"None", "True", "False"}, offscreen \in BOOLEAN :
          vp = PlotterInit(sh, NoN, 1, 1, 1, interactive, offscreen)
    /\ alive = TRUE
    /\ ncalls = 0
    /\ last = NoCall

\* an actor that exists nowhere yet: what a shapes function returns
Fresh(a) == ~InList(a, vp.actors) /\ \A r \in DOMAIN vp.props : a \notin vp.props[r]

\* a call is made, unless the process has ended or the run is at its bound,
\* and leaves e: the plotter, and the end of the process on sys.exit
Leaves(bound, op, args, ret, e) ==
    /\ alive
    /\ ncalls < bound
    /\ vp' = e.p
    /\ alive' = (e.result # "exit")
    /\ ncalls' = ncalls + 1
    /\ last' = Call(vp, op, args, ret, e)

Sphere == \E a \in Handles :
    Fresh(a) /\ Leaves(MaxCalls, "sphere", <<>>, a, Quiet(sphere(vp, a)))

Cube == \E a \in Handles :
    Fresh(a) /\ Leaves(MaxCalls, "cube", <<>>, a, Quiet(cube(vp, a)))

Pyramid == \E a \in Handles :
    Fresh(a) /\ Leaves(MaxCalls, "pyramid", <<>>, a, Quiet(pyramid(vp, a)))

\* show's actors argument: nothing, one actor, two actors, a missing file
ShowItems ==
    {<<>>} \cup {<<a>> : a \in Handles}
    \cup {<<ab[1], ab[2]>> : ab \in {h \in Handles \X Handles : h[1] < h[2]}}
    \cup {<<MissingFile>>}

\* the renderer numbers a call is given: none, the valid ones, one too large
AtArgs == {AtNone} \cup (0..MaxRenderers)

\* show(actors, at, interactive) with the other arguments at their defaults
ShowArgs ==
    {[showDefaults EXCEPT !.actors = items, !.at = at, !.interactive = i] :
        items \in ShowItems, at \in AtArgs, i \in {"None", "True", "False"}}

Show == \E args \in ShowArgs :
    Leaves(MaxCalls, "show", args, None, show(vp, args))

Render == \E a \in {None} \cup Handles, at \in {AtNone, 0} :
    LET args == [addActor |-> a, at |-> at, axes |-> AxesNone]
    IN  Leaves(MaxCalls, "render", args, None, render(vp, args))

AddActor == \E a \in Handles :
    Leaves(MaxCalls, "addActor", a, None, addActor(vp, a))

\* what removeActor and clear are given: an actor or an index into the list
Removables ==
    {[kind |-> "actor", v |-> a] : a \in Handles}
    \cup {[kind |-> "index", v |-> i] : i \in 0..(NHandles - 1)}

RemoveActor == \E x \in Removables :
    Leaves(MaxCalls, "removeActor", x, None, removeActor(vp, x))

\* clear's argument: nothing, one actor or index, two different actors
ClearArgs ==
    {<<>>} \cup {<<x>> : x \in Removables}
    \cup {<<[kind |-> "actor", v |-> ab[1]], [kind |-> "actor", v |-> ab[2]]>> :
             ab \in {h \in Handles \X Handles : h[1] # h[2]}}

Clear == \E L \in ClearArgs :
    Leaves(MaxCalls, "clear", L, None, clear(vp, L))

GetActors == \E s \in {<<"a">>, <<"b">>} :
    Leaves(MaxCalls, "getActors", s, getActorsByLegend(vp, s), Quiet(vp))

Next ==
    \/ Sphere \/ Cube \/ Pyramid
    \/ Show \/ Render \/ AddActor \/ RemoveActor \/ Clear \/ GetActors

Spec == Init /\ [][Next]_vars

(***************************************************************************)
(* SpecShow: show with all its arguments, on a plotter that is empty or    *)
(* was filled by sphere.                                                   *)
(***************************************************************************)
\* show's actors argument in SpecShow: nothing, one pickable actor with a
\* volume, a missing file
ShowItemsOne == {<<>>, <<2>>, <<MissingFile>>}

\* how many of actors, legend, axes, execute and q a call gives
Given(args) ==
    (IF args.actors # <<>> THEN 1 ELSE 0) + (IF args.legend # "None" THEN 1 ELSE 0)
    + (IF args.axes # AxesNone THEN 1 ELSE 0) + (IF args.execute THEN 1 ELSE 0)
    + (IF args.q THEN 1 ELSE 0)

\* show(actors, at, legend, axes, interactive, execute, q) with at most
\* MaxOptions of actors, legend, axes, execute and q given
ShowArgsAll ==
    {args \in [actors : ShowItemsOne, at : AtArgs,
               legend : {"None", "False", "list", "bad"}, axes : {AxesNone, 0, 1},
               resetcam : {TRUE}, interactive : {"None", "True", "False"},
               execute : BOOLEAN, q : BOOLEAN] :
        Given(args) <= MaxOptions}

ShowAll == \E args \in ShowArgsAll :
    Leaves(MaxShowCalls, "show", args, None, show(vp, args))

SphereBefore == \E a \in Handles :
    Fresh(a) /\ Leaves(MaxShowCalls, "sphere", <<>>, a, Quiet(sphere(vp, a)))

NextShow == ShowAll \/ SphereBefore

SpecShow == Init /\ [][NextShow]_vars

(***************************************************************************)
(* SpecCamera: moveCamera between cameras the client made, among show,     *)
(* render and addActor calls.                                              *)
(***************************************************************************)
\* the client's cameras: two at the same place looking in opposite directions
\* with different view-up vectors, one further along the axis whose clipping
\* range is camThickness deep
Cameras ==
    { Camera(0, 2, <<FracDen, 0>>, <<2, 10>>),
      Camera(0, -4, <<0, FracDen>>, <<4, 20>>),
      Camera(4, 8, <<FracDen, 0>>, <<2, 2 + camThickness>>) }

\* the fractions 0, 1/FracDen, ..., 1 and one beyond 1
Fractions == 0..(FracDen + 1)

MoveCamera == \E camstart \in Cameras, camstop \in Cameras, k \in Fractions :
    Leaves(MaxCamCalls, "moveCamera",
           [camstart |-> camstart, camstop |-> camstop, fraction |-> k], None,
           moveCamera(vp, camstart, camstop, k))

\* show(actors, at, interactive, execute)
ShowCam == \E items \in {<<>>, <<2>>}, at \in AtArgs,
              i \in {"None", "True", "False"}, x \in BOOLEAN :
    LET args == [showDefaults EXCEPT !.actors = items, !.at = at,
                                     !.interactive = i, !.execute = x]
    IN  Leaves(MaxCamCalls, "show", args, None, show(vp, args))

RenderCam == \E a \in {None, 1}, at \in {AtNone, 0} :
    LET args == [addActor |-> a, at |-> at, axes |-> AxesNone]
    IN  Leaves(MaxCamCalls, "render", args, None, render(vp, args))

AddActorCam == \E a \in Handles :
    Leaves(MaxCamCalls, "addActor", a, None, addActor(vp, a))

NextCamera == MoveCamera \/ ShowCam \/ RenderCam \/ AddActorCam

SpecCamera == Init /\ [][NextCamera]_vars

(***************************************************************************)
(* The claims on the list of actors (checked under Spec).                  *)
(***************************************************************************)
ShapeMethods == {"sphere", "cube", "pyramid"}

\* C1: a shape-construction method appends exactly one handle, the one it
\* returns, at the end of the actors list and leaves the earlier entries as
\* they were (the length grows by exactly 1).
C1_ShapeAppendsOne ==
    last.op \in ShapeMethods => vp.actors = Append(last.before.actors, last.ret)

\* C2: after clear() with no arguments the actors list is empty, whatever
\* the state of the plotter (also when there is no current renderer yet).
C2_ClearEmpties ==
    (last.op = "clear" /\ last.args = <<>>) => vp.actors = <<>>

\* clear() has emptied a list that held actors, on a plotter that has no
\* current renderer
C2_Witness ==
    /\ last.op = "clear" /\ last.args = <<>>
    /\ last.before.actors # <<>>
    /\ vp.renderer = NoRenderer
    /\ vp.actors = <<>>

\* C3: after clear(actors=L) with a non-empty L, no element of L is in the
\* actors list, whether show() initialised the plotter before or not.
C3_ClearListRemoves ==
    (last.op = "clear" /\ Len(last.args) > 0) =>
        \A i \in 1..Len(last.args) :
            last.args[i].kind = "actor" => ~InList(last.args[i].v, vp.actors)

\* C4: after addActor(a) returns, a is in the actors list and attached to
\* the current renderer, also when it is the first call on the plotter.
C4_AddActorAdds ==
    (last.op = "addActor" /\ last.result = "returned") =>
        /\ InList(last.args, vp.actors)
        /\ vp.renderer # NoRenderer
        /\ last.args \in vp.props[vp.renderer]

\* the position (from 1) of the entry removeActor(x) is about, 0 if none
C5_Entry(actors, x) ==
    IF x.kind = "actor" THEN ListIndex(x.v, actors)
    ELSE IF x.v < Len(actors) THEN x.v + 1 ELSE 0

\* C5: removeActor(a), a an actor or an index into the actors list, removes
\* that actor from the current renderer and its entry from the actors list,
\* leaves the other entries in their order, and never raises.
C5_RemoveActorRemoves ==
    last.op = "removeActor" =>
        /\ last.result = "returned"
        /\ LET i == C5_Entry(last.before.actors, last.args)
           IN  i # 0 =>
                 /\ vp.actors = DelAt(last.before.actors, i)
                 /\ vp.renderer # NoRenderer =>
                        last.before.actors[i] \notin vp.props[vp.renderer]

\* C10: getActors(s) for a string s returns exactly the pickable entries of
\* the actors list whose legend text contains s, in list order, in every
\* state of the plotter (also before the first show()).
C10_GetActorsByLegend ==
    last.op = "getActors" =>
        last.ret = SelectSeq(vp.actors,
                             LAMBDA a : a # None /\ GetPickable(a)
                                        /\ StrContains(last.args, legendText(a)))

\* the show() call went through to the rendering of its renderer and
\* returned (it was not the call without at on several renderers, which
\* renders the window and returns)
C12_Completed ==
    /\ last.op = "show" /\ last.result = "returned" /\ last.rendered
    /\ ~(last.args.at = AtNone /\ Len(vp.renderers) > 1 /\ ~vp.offscreen)

\* C12: whenever a show() call completes on a renderer with axes mode 1
\* while the actors list holds an actor with a non-degenerate bounding box,
\* that renderer contains the grid walls afterwards, whatever calls came
\* before (also a show() made while the list was empty).
C12_WallsDrawn ==
    (C12_Completed /\ vp.axes = 1
       /\ \E a \in Entries(vp.actors) \ {None} : hasVolume(a))
    => vp.walls[vp.renderer]

\* C20: show() given a file path that matches no file removes no actor
\* registered before: every handle of the list before the call is still in
\* it, at the same position, after the call.
C20_MissingFileRemovesNothing ==
    (last.op = "show" /\ InList(MissingFile, last.args.actors)) =>
        \A i \in 1..Len(last.before.actors) :
            i <= Len(vp.actors) /\ vp.actors[i] = last.before.actors[i]

(***************************************************************************)
(* The claims on show (checked under SpecShow).                            *)
(***************************************************************************)
\* the call was given a valid renderer index, or none
C6_ValidIndex == last.args.at = AtNone \/ last.args.at < Len(vp.renderers)

\* the interactive flag in effect: the argument when given, the stored flag otherwise
C6_Flag ==
    IF last.args.interactive = "None" THEN last.before.interactive
    ELSE last.args.interactive = "True"

\* the call ended before its renderer was drawn: by the exit on a malformed
\* legend, or by an exception
C6_CutShort ==
    last.result = "raised" \/ "legend must be list or string" \in last.msgs

\* C6 as stated: for a show() call with a valid renderer index the
\* interaction loop is started during the call if and only if the plotter is
\* not offscreen and the interactive flag in effect is true;
\* show(interactive=False) never starts it.
C6_LoopIffInteractive ==
    last.op = "show" =>
        /\ C6_ValidIndex => (last.started > 0 <=> (~vp.offscreen /\ C6_Flag))
        /\ last.args.interactive = "False" => last.started = 0

\* C6 as amended: ... if and only if the call is not ended early (by the exit
\* on a malformed legend or by an exception), the plotter is not offscreen and
\* the interactive flag in effect is true; show(interactive=False) never
\* starts the loop.
C6_LoopIffInteractiveAndNotCutShort ==
    last.op = "show" =>
        /\ C6_ValidIndex =>
              (last.started > 0 <=> (~C6_CutShort /\ ~vp.offscreen /\ C6_Flag))
        /\ last.args.interactive = "False" => last.started = 0

\* a show(interactive=True) on a plotter whose stored flag was false has
\* started the loop
C6_Witness ==
    /\ last.op = "show" /\ C6_ValidIndex
    /\ last.args.interactive = "True" /\ ~last.before.interactive
    /\ last.started = 1

\* show got a renderer index that is not less than the number of renderers
C7_WrongIndex == last.op = "show" /\ last.args.at >= Len(vp.renderers)

\* what the call must not have done: render, start the loop, change the
\* current renderer, mark the plotter initialised
C7_NothingDone ==
    /\ ~last.rendered
    /\ last.started = 0
    /\ vp.renderer = last.before.renderer
    /\ vp.initializedPlotter = last.before.initializedPlotter

\* C7 as stated: show() with a renderer index that is not less than the
\* number of renderers reports an error and returns, without rendering,
\* starting the loop, changing the current renderer or marking the plotter
\* initialised.
C7_WrongIndexReturns ==
    C7_WrongIndex =>
        /\ "wrong renderer index" \in last.msgs
        /\ last.result = "returned"
        /\ C7_NothingDone

\* C7 as amended: such a call never renders, starts the loop, changes the
\* current renderer or marks the plotter initialised; and unless it is ended
\* early (by the exit on a malformed legend or by an exception) it reports the
\* wrong index and returns.
C7_WrongIndexDoesNothing ==
    C7_WrongIndex =>
        /\ C7_NothingDone
        /\ ~C6_CutShort =>
              ("wrong renderer index" \in last.msgs /\ last.result = "returned")

\* a wrong index was reported on a plotter that had a current renderer, and
\* the call asked for interaction
C7_Witness ==
    /\ C7_WrongIndex
    /\ "wrong renderer index" \in last.msgs
    /\ last.before.initializedPlotter
    /\ last.args.interactive = "True"
    /\ vp.renderer = last.before.renderer

\* C13: after show(legend=False) the current renderer contains no legend
\* box, also when a legend list was stored by an earlier show() or the
\* actors carry their own legend text.
C13_NoLegendBox ==
    (C12_Completed /\ last.args.legend = "False") =>
        vp.legendBox[vp.renderer] = NoBox

\* C14: show() with a legend argument that is truthy but neither a sequence
\* nor a string reports an error and ends the process, before any renderer
\* is selected, any actor is attached to a renderer or anything is rendered.
C14_BadLegendExits ==
    (last.op = "show" /\ last.args.legend = "bad") =>
        /\ "legend must be list or string" \in last.msgs
        /\ last.result = "exit"
        /\ vp.renderer = last.before.renderer
        /\ vp.props = last.before.props
        /\ ~last.rendered

\* C15: a function passed as the execute argument of show() is registered
\* as the timer callback of the interactor by that call, for every show()
\* call on a plotter that is not offscreen with a valid renderer index
\* (given, or omitted on a plotter of one renderer), not only the first one.
C15_ExecuteRegistered ==
    (last.op = "show" /\ last.args.execute /\ ~vp.offscreen /\ C6_ValidIndex
       /\ ~C6_CutShort /\ ~(last.args.at = AtNone /\ Len(vp.renderers) > 1))
    => vp.nTimers = last.before.nTimers + 1

\* C16: every show() call made with q=True ends with the exit of the
\* process once rendering is over, whichever path the call takes (one or
\* several renderers, at given or not, valid or not).
C16_QuitAlways ==
    (last.op = "show" /\ last.args.q /\ last.result # "raised") =>
        last.result = "exit"

\* C18: the interaction loop is never started before the interactor has
\* been initialised and the four input callbacks registered.
C18_LoopAfterRegistration ==
    (last.op = "show" /\ last.started > 0) =>
        (~last.startedUninit /\ vp.nInitialize >= 1 /\ vp.nObservers >= 1)

(***************************************************************************)
(* The claims on the camera and the interactor (checked under SpecCamera). *)
(***************************************************************************)
\* C11: moveCamera(camstart, camstop, fraction) installs as the camera of
\* the plotter a camera whose position, focal point, view-up, distance and
\* clipping range are each (1-fraction)*start + fraction*stop (so fraction 0
\* gives camstart and fraction 1 gives camstop).
C11_MoveCameraInterpolates ==
    last.op = "moveCamera" =>
        LET a == last.args.camstart
            b == last.args.camstop
            k == last.args.fraction
            c == vp.camera
        IN  /\ ~c.framed /\ ~c.fitted /\ ~c.upScaled
            /\ c.position = Lerp(a.position, b.position, k)
            /\ c.focalPoint = Lerp(a.focalPoint, b.focalPoint, k)
            /\ c.viewUp = <<Lerp(a.viewUp[1], b.viewUp[1], k),
                            Lerp(a.viewUp[2], b.viewUp[2], k)>>
            /\ c.distance = Lerp(a.distance, b.distance, k)
            /\ c.clippingRange = <<Lerp(a.clippingRange[1], b.clippingRange[1], k),
                                   Lerp(a.clippingRange[2], b.clippingRange[2], k)>>

\* C19: across any sequence of show(), render(), addActor() and
\* moveCamera() calls the interactor is initialised at most once and each of
\* the four input callbacks is registered at most once.
C19_InitialisedOnce == vp.nInitialize <= 1 /\ vp.nObservers <= 1

\* moveCamera has shown a plotter of one renderer whose interactor an
\* earlier call had initialised
C19_Witness ==
    /\ last.op = "moveCamera" /\ last.rendered
    /\ last.before.initializedPlotter
    /\ Len(vp.renderers) = 1 /\ ~vp.offscreen
    /\ vp.nInitialize = 1 /\ vp.nObservers = 1

(***************************************************************************)
(* SpecGrid: the grid the constructor chooses for N desired renderers.     *)
(* SpecBuild: the plotter the constructor builds.                          *)
(* In both, last holds the arguments of the constructor call to come       *)
(* (op = "args") and then the call made.                                   *)
(***************************************************************************)
\* screen sizes (x, y): landscape, square, portrait
Screens == {<<1920, 1080>>, <<1000, 1000>>, <<1080, 1920>>}

CtorArgs(shape, N, scr, interactive, offscreen) ==
    [op |-> "args",
     args |-> [shape |-> shape, N |-> N, x |-> scr[1], y |-> scr[2],
               interactive |-> interactive, offscreen |-> offscreen]]

InitGrid ==
    /\ \E N \in 1..MaxN, scr \in Screens, shape \in {<<1, 1>>, <<2, 3>>} :
          last = CtorArgs(shape, N, scr, "None", FALSE)
    /\ vp = <<>>
    /\ alive = TRUE
    /\ ncalls = 0

\* the lines of __init__ that choose the shape
ChooseGrid ==
    /\ last.op = "args"
    /\ last' = [op |-> "grid", args |-> last.args,
                ret |-> ChosenShape(last.args.shape, last.args.N, last.args.x, last.args.y)]
    /\ ncalls' = ncalls + 1
    /\ UNCHANGED <<vp, alive>>

NextGrid == ChooseGrid

SpecGrid == InitGrid /\ [][NextGrid]_vars

InitBuild ==
    /\ \E shape \in (1..MaxGrid) \X (1..MaxGrid), N \in {NoN} \cup (1..MaxBuildN),
          scr \in Screens, interactive \in {"None", "True", "False"},
          offscreen \in BOOLEAN :
          /\ N # NoN => shape \in {<<1, 1>>, <<2, 3>>}
          /\ last = CtorArgs(shape, N, scr, interactive, offscreen)
    /\ vp = <<>>
    /\ alive = TRUE
    /\ ncalls = 0

\* Plotter(shape, N, screensize, interactive, offscreen)
Build ==
    /\ last.op = "args"
    /\ vp' = PlotterInit(last.args.shape, last.args.N, last.args.x, last.args.y, 1,
                         last.args.interactive, last.args.offscreen)
    /\ last' = [op |-> "Plotter", args |-> last.args]
    /\ ncalls' = ncalls + 1
    /\ UNCHANGED alive

NextBuild == Build

SpecBuild == InitBuild /\ [][NextBuild]_vars

\* C8: for N >= 1 desired renderers and every screen size the chosen grid
\* (rows, cols) has rows >= 1, cols >= 1 and rows*cols >= N; the shape
\* argument has no influence on it.
C8_GridHoldsN ==
    last.op = "grid" =>
        /\ last.ret[1] >= 1 /\ last.ret[2] >= 1
        /\ last.ret[1] * last.ret[2] >= last.args.N
        /\ last.ret = ChosenShape(<<1, 1>>, last.args.N, last.args.x, last.args.y)

\* the unit cell (cx, cy) of the window lies in the viewport v
C9_Covers(v, cx, cy) ==
    v.xmin <= cx /\ cx + 1 <= v.xmax /\ v.ymin <= cy /\ cy + 1 <= v.ymax

\* C9: a plotter built with grid shape (rows, cols) has exactly rows*cols
\* renderers and one axes_exist slot per renderer; renderer k occupies the
\* cell in row (k div cols) from the top and column (k mod cols) from the
\* left; the viewports do not overlap and together cover the window.
C9_GridOfViewports ==
    last.op = "Plotter" =>
        LET rows == vp.shape[1]
            cols == vp.shape[2]
            n == Len(vp.renderers)
        IN  /\ n = rows * cols
            /\ DOMAIN vp.axes_exist = 0..(n - 1)
            /\ \A k \in 0..(n - 1) :
                  LET v == vp.renderers[k + 1]
                  IN  /\ v.xmin = k % cols /\ v.xmax = v.xmin + 1
                      /\ v.ymax = rows - (k \div cols) /\ v.ymin = v.ymax - 1
            /\ \A cx \in 0..(cols - 1), cy \in 0..(rows - 1) :
                  Cardinality({k \in 1..n : C9_Covers(vp.renderers[k], cx, cy)}) = 1

\* a plotter with several rows and several columns was built
C9_Witness ==
    last.op = "Plotter" /\ vp.shape[1] >= 2 /\ vp.shape[2] >= 3
    /\ Len(vp.renderers) = vp.shape[1] * vp.shape[2]

\* the number of cells of the k-th candidate
C17_Cells(lm, k) == lm[k][1] * lm[k][2]

\* C17: the grid chosen for N desired renderers is, among the nine
\* candidates around (nx, ny), the one with the fewest cells that still has
\* at least N cells, the earliest in candidate order winning ties.
C17_FewestEmptyCells ==
    last.op = "grid" =>
        LET N == last.args.N
            lm == Candidates(N, last.args.x, last.args.y)
        IN  \E k \in 1..Len(lm) :
               /\ last.ret = lm[k]
               /\ C17_Cells(lm, k) >= N
               /\ \A j \in 1..Len(lm) :
                      C17_Cells(lm, j) >= N =>
                          \/ C17_Cells(lm, k) < C17_Cells(lm, j)
                          \/ C17_Cells(lm, k) = C17_Cells(lm, j) /\ k <= j

=============================================================================
